---- MODULE Spec2Model ----
(***************************************************************************)
(* PatientPal: the orchestration core of src/utils/orchestrator.py and the *)
(* three-tier memory of src/utils/memory.py.                               *)
(*                                                                         *)
(* Representation.  A Python str is a sequence of atoms (<<"a","b">>):     *)
(* queries and emergency phrases are spelled character by character, the   *)
(* other texts word by word, so that concatenation is \o and a substring   *)
(* test is a test on sequences.  None is the empty sequence <<>> and a     *)
(* present optional value v is <<v>>.  A float confidence c is the integer *)
(* c * 100 * ConfUnit.  Timestamps, processing times and metadata are not  *)
(* modelled.                                                               *)
(***************************************************************************)
EXTENDS Integers, Sequences, FiniteSets, TLC

(* ---------------------------------------------------------------------- *)
(* Bounds                                                                  *)
(* ---------------------------------------------------------------------- *)

\* number of orchestrate calls made on one orchestrator
MaxCalls == 2

(* ---------------------------------------------------------------------- *)
(* Strings                                                                 *)
(* ---------------------------------------------------------------------- *)

\* one hundredth of a confidence: 0.85 is 85 * ConfUnit, 1.0 is 100 * ConfUnit
ConfUnit == 6

None == << >>

Some(v) == << v >>

UpperAtoms ==
  <<"A","B","C","D","E","F","G","H","I","J","K","L","M","N","O","P","Q","R","S",
    "T","U","V","W","X","Y","Z",
    "None","NONE","N/A","Single","Parallel","PARALLEL","Sequential","Yes","No",
    "Emergency","Urgent","Routine","High","Medium","Low","HIGH",
    "EXECUTION_MODE:","REQUIRES_IMAGE:","URGENCY:","CONFIDENCE:">>

LowerAtoms ==
  <<"a","b","c","d","e","f","g","h","i","j","k","l","m","n","o","p","q","r","s",
    "t","u","v","w","x","y","z",
    "none","none","n/a","single","parallel","parallel","sequential","yes","no",
    "emergency","urgent","routine","high","medium","low","high",
    "execution_mode:","requires_image:","urgency:","confidence:">>

\* str.lower() on one atom
LowerAtom(c) ==
  IF \E i \in 1..Len(UpperAtoms) : UpperAtoms[i] = c
  THEN LowerAtoms[CHOOSE i \in 1..Len(UpperAtoms) : UpperAtoms[i] = c]
  ELSE c

\* str.lower()
Lower(s) == [i \in 1..Len(s) |-> LowerAtom(s[i])]

\* `sub in s` of Python: sub occurs in s as a contiguous run
Contains(s, sub) ==
  \E i \in 0..(Len(s) - Len(sub)) : \A j \in 1..Len(sub) : s[i + j] = sub[j]

IsSpace(c) == c \in {" ", "\n"}

RECURSIVE LStrip(_)
LStrip(s) == IF s # << >> /\ IsSpace(Head(s)) THEN LStrip(Tail(s)) ELSE s

RECURSIVE RStrip(_)
RStrip(s) ==
  IF s # << >> /\ IsSpace(s[Len(s)]) THEN RStrip(SubSeq(s, 1, Len(s) - 1)) ELSE s

\* str.strip()
Strip(s) == LStrip(RStrip(s))

\* sep.join(parts)
RECURSIVE Join(_, _)
Join(sep, parts) ==
  IF parts = << >> THEN << >>
  ELSE IF Len(parts) = 1 THEN parts[1]
  ELSE parts[1] \o sep \o Join(sep, Tail(parts))

\* s.split(",")
RECURSIVE Split(_)
Split(s) ==
  IF \E i \in 1..Len(s) : s[i] = ","
  THEN LET i == CHOOSE k \in 1..Len(s) : s[k] = "," /\ \A m \in 1..(k - 1) : s[m] # ","
       IN  << SubSeq(s, 1, i - 1) >> \o Split(SubSeq(s, i + 1, Len(s)))
  ELSE << s >>

\* [keyword for keyword in keywords if keyword in text]
RECURSIVE KeywordsIn(_, _)
KeywordsIn(keywords, text) ==
  IF keywords = << >> THEN << >>
  ELSE (IF Contains(text, Head(keywords)) THEN << Head(keywords) >> ELSE << >>)
       \o KeywordsIn(Tail(keywords), text)

RECURSIVE SumSeq(_)
SumSeq(seq) == IF seq = << >> THEN 0 ELSE Head(seq) + SumSeq(Tail(seq))

Range(seq) == { seq[i] : i \in 1..Len(seq) }

(* ---------------------------------------------------------------------- *)
(* Safety screener                                                         *)
(* ---------------------------------------------------------------------- *)

emergency_keywords ==
  << <<"c","h","e","s","t"," ","p","a","i","n">>,
     <<"c","a","n","'","t"," ","b","r","e","a","t","h","e">>,
     <<"d","i","f","f","i","c","u","l","t","y"," ","b","r","e","a","t","h","i","n","g">>,
     <<"u","n","c","o","n","s","c","i","o","u","s">>,
     <<"s","e","i","z","u","r","e">>,
     <<"s","t","r","o","k","e">>,
     <<"s","e","v","e","r","e"," ","b","l","e","e","d","i","n","g">>,
     <<"c","h","o","k","i","n","g">>,
     <<"h","e","a","r","t"," ","a","t","t","a","c","k">>,
     <<"a","n","a","p","h","y","l","a","x","i","s">>,
     <<"c","a","n","'","t"," ","m","o","v","e">>,
     <<"s","e","v","e","r","e"," ","h","e","a","d","a","c","h","e">>,
     <<"c","r","u","s","h","i","n","g"," ","c","h","e","s","t">>,
     <<"s","h","o","r","t","n","e","s","s"," ","o","f"," ","b","r","e","a","t","h">> >>

\* the screener without the lowering of the query
check_safety_case_sensitive(query) ==
  LET detected_flags == KeywordsIn(emergency_keywords, query)
      is_emergency   == Len(detected_flags) > 0
  IN  [is_emergency |-> is_emergency,
       flags        |-> detected_flags,
       urgency      |-> IF is_emergency THEN <<"emergency">> ELSE <<"routine">>]

check_safety(query) ==
  LET query_lower    == Lower(query)
      detected_flags == KeywordsIn(emergency_keywords, query_lower)
      is_emergency   == Len(detected_flags) > 0
  IN  [is_emergency |-> is_emergency,
       flags        |-> detected_flags,
       urgency      |-> IF is_emergency THEN <<"emergency">> ELSE <<"routine">>]

(* ---------------------------------------------------------------------- *)
(* Router                                                                  *)
(* ---------------------------------------------------------------------- *)

\* RoutingDecision(...) with the defaults of its fields
RoutingDecision(query, primary_agent, additional_agents, execution_mode, requires_image, urgency_level, reasoning, confidence, safety_flags) ==
  [query             |-> query,
   primary_agent     |-> primary_agent,
   additional_agents |-> additional_agents,
   execution_mode    |-> execution_mode,
   requires_image    |-> requires_image,
   urgency_level     |-> urgency_level,
   medical_domain    |-> None,
   reasoning         |-> reasoning,
   confidence        |-> confidence,
   safety_flags      |-> safety_flags]

\* the decision analyze_query builds when the screener fired
EmergencyDecision(query, safety_result) ==
  RoutingDecision(query, <<"emergency">>, << >>, <<"single">>, FALSE, <<"emergency">>,
                  <<"Emergency keywords detected: ">> \o Join(<<",", " ">>, safety_result.flags),
                  100 * ConfUnit, safety_result.flags)

\* a fallback that keeps the parser's default confidence of 0.7
FallbackDecision_default_confidence(query, e) ==
  RoutingDecision(query, <<"MedGemma">>, << >>, <<"single">>, FALSE, <<"routine">>,
                  <<"Default routing due to error: ">> \o e, 70 * ConfUnit, << >>)

\* the decision analyze_query builds when the router model call raised e
FallbackDecision(query, e) ==
  RoutingDecision(query, <<"MedGemma">>, << >>, <<"single">>, FALSE, <<"routine">>,
                  <<"Default routing due to error: ">> \o e, 50 * ConfUnit, << >>)

\* the positions of text where the pattern's literal prefix matches
PrefixAt(text, prefix, ignorecase) ==
  { i \in 1..Len(text) :
      IF ignorecase THEN LowerAtom(text[i]) = LowerAtom(prefix) ELSE text[i] = prefix }

\* first position after i that holds no white space (Len(text) + 1 if none)
SkipSpace(text, i) ==
  IF \E k \in (i + 1)..Len(text) : ~IsSpace(text[k])
  THEN CHOOSE k \in (i + 1)..Len(text) :
         ~IsSpace(text[k]) /\ \A m \in (i + 1)..(k - 1) : IsSpace(text[m])
  ELSE Len(text) + 1

\* end of the line that position s is on: `.` matches everything but a newline
LineEnd(text, s) ==
  IF \E k \in s..Len(text) : text[k] = "\n"
  THEN (CHOOSE k \in s..Len(text) : text[k] = "\n" /\ \A m \in s..(k - 1) : text[m] # "\n") - 1
  ELSE Len(text)

\* where group 1 of  PREFIX\s*(.+)  can start for the prefix at i: \s* is greedy
\* and gives white space back until .+ finds a character that is no newline
RestStarts(text, i) ==
  { s \in (i + 1)..SkipSpace(text, i) : s <= Len(text) /\ text[s] # "\n" }

Max(S) == CHOOSE x \in S : \A y \in S : y <= x

Min(S) == CHOOSE x \in S : \A y \in S : x <= y

\* re.search(PREFIX + r'\s*(.+)', text): group 1 of the first match, or None
SearchRest(text, prefix) ==
  LET hits == { i \in PrefixAt(text, prefix, FALSE) : RestStarts(text, i) # {} }
  IN  IF hits = {} THEN None
      ELSE LET i == Min(hits)
               s == Max(RestStarts(text, i))
           IN  Some(SubSeq(text, s, LineEnd(text, s)))

\* re.search(PREFIX + r'\s*(a|b|c)', text, re.IGNORECASE): group 1, or None
SearchWord(text, prefix, words) ==
  LET hits == { i \in PrefixAt(text, prefix, TRUE) :
                  /\ SkipSpace(text, i) <= Len(text)
                  /\ LowerAtom(text[SkipSpace(text, i)]) \in words }
  IN  IF hits = {} THEN None
      ELSE Some(<< text[SkipSpace(text, Min(hits))] >>)

\* [a.strip() for a in parts]
StripAll(parts) == [i \in 1..Len(parts) |-> Strip(parts[i])]

confidence_map(confidence_str) ==
  CASE confidence_str = <<"high">>   -> 90 * ConfUnit
    [] confidence_str = <<"medium">> -> 70 * ConfUnit
    [] confidence_str = <<"low">>    -> 50 * ConfUnit
    [] OTHER                         -> 70 * ConfUnit

parse_routing_response(llm_response, query) ==
  LET agent_match      == SearchRest(llm_response, "SELECTED_AGENT:")
      additional_match == SearchRest(llm_response, "ADDITIONAL_AGENTS:")
      execution_match  == SearchWord(llm_response, "EXECUTION_MODE:", {"single", "parallel", "sequential"})
      image_match      == SearchWord(llm_response, "REQUIRES_IMAGE:", {"yes", "no"})
      urgency_match    == SearchWord(llm_response, "URGENCY:", {"emergency", "urgent", "routine"})
      confidence_match == SearchWord(llm_response, "CONFIDENCE:", {"high", "medium", "low"})
      reasoning_match  == SearchRest(llm_response, "REASONING:")
      primary_agent    == IF agent_match # None THEN Strip(agent_match[1]) ELSE <<"MedGemma">>
      agents_str       == IF additional_match # None THEN Strip(additional_match[1]) ELSE << >>
      additional_agents ==
        IF additional_match # None /\ Lower(agents_str) \notin { <<"none">>, <<"n/a">>, << >> }
        THEN StripAll(Split(agents_str))
        ELSE << >>
      execution_mode   == IF execution_match # None THEN Lower(execution_match[1]) ELSE <<"single">>
      requires_image   == IF image_match # None THEN Lower(image_match[1]) = <<"yes">> ELSE FALSE
      urgency          == IF urgency_match # None THEN Lower(urgency_match[1]) ELSE <<"routine">>
      confidence_str   == IF confidence_match # None THEN Lower(confidence_match[1]) ELSE <<"medium">>
      reasoning        == IF reasoning_match # None THEN Strip(reasoning_match[1]) ELSE <<"Default routing">>
  IN  RoutingDecision(query, primary_agent, additional_agents, execution_mode, requires_image,
                      urgency, reasoning, confidence_map(confidence_str), << >>)

(* ---------------------------------------------------------------------- *)
(* Specialist agents                                                       *)
(* ---------------------------------------------------------------------- *)

MedGemma == <<"MedGemma">>

TxGemma == <<"TxGemma">>

CXRFoundation == <<"CXR", " ", "Foundation">>

\* the keys of the registry self.agents, in insertion order
AgentKeys == << MedGemma, TxGemma, CXRFoundation >>

agents == Range(AgentKeys)

\* d[key] = value on a dict d
DictSet(d, key, value) ==
  [k \in (DOMAIN d) \cup {key} |-> IF k = key THEN value ELSE d[k]]

\* `not context` of Python: None and the empty dict are both falsy
Falsy(context) == context = None \/ DOMAIN context[1] = {}

\* validate_input of MedGemmaAgent and of TxGemmaAgent
validate_input_text(query) ==
  ~(query = << >> \/ Len(Strip(query)) < 5) /\ ~(Len(query) > 5000)

\* validate_input of CXRFoundationAgent; the images of the model have a size
validate_input_image(context) ==
  ~(Falsy(context) \/ <<"image">> \notin DOMAIN context[1])

\* agent.validate_input(query, context), dispatched on the class of the agent
validate_input(agent_name, query, context) ==
  IF agent_name = CXRFoundation
  THEN validate_input_image(context)
  ELSE validate_input_text(query)

AgentResponse(agent_name, input_query, output, confidence, error) ==
  [agent_name  |-> agent_name,
   input_query |-> input_query,
   output      |-> output,
   confidence  |-> confidence,
   error       |-> error]

\* the confidence an agent reports with an answer
AnswerConfidence(agent_name) ==
  CASE agent_name = MedGemma -> 85 * ConfUnit
    [] agent_name = TxGemma  -> 88 * ConfUnit
    [] OTHER                 -> 60 * ConfUnit

\* agent.process(query, context): an answer when the model call went through
\* (answered), the error response of its except branch otherwise
process(agent_name, query, context, answered) ==
  IF answered
  THEN AgentResponse(agent_name, query, <<"answer of ">> \o agent_name,
                     AnswerConfidence(agent_name), None)
  ELSE AgentResponse(agent_name, query, << >>, 0, Some(<<"model call failed">>))

(* ---------------------------------------------------------------------- *)
(* Three-tier memory                                                       *)
(* ---------------------------------------------------------------------- *)

Message(role, content) == [role |-> role, content |-> content]

AgentConsultation(agent_name, query, response, confidence) ==
  [agent_name |-> agent_name, query |-> query, response |-> response, confidence |-> confidence]

OrchestrationEvent(query, routing_decision, agents_consulted, execution_mode, success, error) ==
  [query            |-> query,
   routing_decision |-> routing_decision,
   agents_consulted |-> agents_consulted,
   execution_mode   |-> execution_mode,
   success          |-> success,
   error            |-> error]

(* ---------------------------------------------------------------------- *)
(* Inputs                                                                  *)
(* ---------------------------------------------------------------------- *)

\* "Chest Pain"
QueryChestPain == <<"C","h","e","s","t"," ","P","a","i","n">>

\* "a stroke? CHOKING"
QueryStrokeChoking == <<"a"," ","s","t","r","o","k","e","?"," ","C","H","O","K","I","N","G">>

\* "fever and cough"
QueryFever == <<"f","e","v","e","r"," ","a","n","d"," ","c","o","u","g","h">>

Queries == { QueryChestPain, QueryStrokeChoking, QueryFever }

ImageContext == [k \in { <<"image">> } |-> <<"<PIL image>">>]

\* no context, the empty dict, a dict with an image
Contexts == { None, Some(<< >>), Some(ImageContext) }

Line(prefix, value) == << prefix, " " >> \o value \o << "\n" >>

Reply(agent, additional, mode, urgency, confidence) ==
  Line("SELECTED_AGENT:", agent) \o Line("ADDITIONAL_AGENTS:", additional)
  \o Line("EXECUTION_MODE:", <<mode>>) \o Line("REQUIRES_IMAGE:", <<"No">>)
  \o Line("URGENCY:", <<urgency>>) \o Line("CONFIDENCE:", <<confidence>>)
  \o Line("REASONING:", <<"because">>)

ReplySingleExtra == Reply(CXRFoundation, MedGemma, "single", "urgent", "Low")

ReplyParallel == Reply(MedGemma, TxGemma, "Parallel", "routine", "Medium")

ReplyParallelMixed ==
  Reply(MedGemma, <<"Cardio", ",", " ">> \o CXRFoundation, "parallel", "routine", "High")

ReplyParallelTwice == Reply(TxGemma, TxGemma, "parallel", "routine", "Medium")

ReplySequentialTwice ==
  Reply(MedGemma, MedGemma \o <<",", " ">> \o TxGemma, "sequential", "routine", "High")

ReplySequentialMissing ==
  Reply(TxGemma, <<"Cardio", ",">> \o MedGemma, "sequential", "routine", "High")

ReplyUrgencyEmergency == Reply(MedGemma, <<"None">>, "single", "Emergency", "High")

ReplyAdditionalNA == Reply(TxGemma, <<"N/A">>, "single", "routine", "Low")

\* the ADDITIONAL_AGENTS field left empty, the other fields after it
ReplyAdditionalEmpty == Reply(TxGemma, << >>, "single", "routine", "High")

\* a reply without the ADDITIONAL_AGENTS field
ReplyAdditionalMissing ==
  Line("SELECTED_AGENT:", TxGemma) \o Line("EXECUTION_MODE:", <<"single">>)
  \o Line("URGENCY:", <<"urgent">>) \o Line("CONFIDENCE:", <<"High">>)

\* the ADDITIONAL_AGENTS field left empty at the end of the reply
ReplyAdditionalEmptyLast ==
  Line("SELECTED_AGENT:", TxGemma) \o Line("EXECUTION_MODE:", <<"single">>)
  \o Line("URGENCY:", <<"urgent">>) \o Line("ADDITIONAL_AGENTS:", << >>)

\* what self.llm.invoke returns to the router
RouterReplies ==
  { ReplySingleExtra, ReplyParallel, ReplyParallelMixed, ReplyParallelTwice,
    ReplySequentialTwice, ReplySequentialMissing, ReplyUrgencyEmergency,
    ReplyAdditionalNA, ReplyAdditionalEmpty, ReplyAdditionalMissing, ReplyAdditionalEmptyLast }

\* str(e) of the exception a failed language-model call raises
LlmError == <<"Request timed out.">>

\* the content of the synthesizer's language-model reply
SynthesisReply == <<"synthesized answer">>

(* ---------------------------------------------------------------------- *)
(* State                                                                   *)
(* ---------------------------------------------------------------------- *)

VARIABLES
  initialized,          \* agent._is_initialized of every registered agent
  conversation_history, \* Tier 1
  agent_consultations,  \* Tier 2: dict agent name -> list
  orchestration_log,    \* Tier 3
  pc,                   \* where the orchestrate call in flight stands
  query,                \* argument of the call in flight
  context,              \* argument of the call: the caller's dict object, or None
  routing_decision,     \* local of orchestrate: None until analyze_query returned
  tasks,                \* the execute_single_agent activations of this call
  responses,            \* local of execute_parallel / execute_sequential
  errors,               \* local of execute_parallel
  current_context,      \* local of execute_sequential
  aliased,              \* current_context is the caller's dict object
  agent_responses,      \* local of orchestrate
  exc,                  \* the exception orchestrate caught: None or str(e)
  result,               \* what the last call returned: None or an OrchestratedResponse
  llm_calls,            \* self.llm.invoke calls made by the call in flight
  llm_response,         \* local of analyze_query: the router's reply, None if the call raised
  calls,                \* orchestrate calls started so far
  consultations_before  \* Tier 2 as it was when the call in flight started

vars ==
  << initialized, conversation_history, agent_consultations, orchestration_log, pc, query,
     context, routing_decision, tasks, responses, errors, current_context, aliased,
     agent_responses, exc, result, llm_calls, llm_response, calls, consultations_before >>

memory_vars == << conversation_history, agent_consultations, orchestration_log >>

call_vars == << query, context, calls, consultations_before >>

exec_vars == << tasks, responses, errors, current_context, aliased >>

EmptyDict == << >>

Init ==
  /\ initialized = [a \in agents |-> FALSE]
  /\ conversation_history = << >>
  /\ agent_consultations = EmptyDict
  /\ orchestration_log = << >>
  /\ pc = "IDLE"
  /\ query = << >>
  /\ context = None
  /\ routing_decision = None
  /\ tasks = << >>
  /\ responses = << >>
  /\ errors = << >>
  /\ current_context = EmptyDict
  /\ aliased = FALSE
  /\ agent_responses = << >>
  /\ exc = None
  /\ result = None
  /\ llm_calls = 0
  /\ llm_response = None
  /\ calls = 0
  /\ consultations_before = EmptyDict

(* ---------------------------------------------------------------------- *)
(* orchestrate: entry, safety check, routing                               *)
(* ---------------------------------------------------------------------- *)

\* no orchestrate call is in flight: nothing was called yet, or the last call
\* of the caller (orchestrate, clear_conversation, clear_all) has returned
IdleStates == {"IDLE", "DONE", "RAISED", "CLEARED_CONVERSATION", "CLEARED_ALL"}

\* orchestrate(q, c) is called: the query goes to Tier 1 before the try block
Orchestrate(q, c) ==
  /\ pc \in IdleStates
  /\ calls < MaxCalls
  /\ calls' = calls + 1
  /\ query' = q
  /\ context' = c
  /\ conversation_history' = Append(conversation_history, Message(<<"user">>, q))
  /\ consultations_before' = agent_consultations
  /\ routing_decision' = None
  /\ tasks' = << >>
  /\ responses' = << >>
  /\ errors' = << >>
  /\ current_context' = EmptyDict
  /\ aliased' = FALSE
  /\ agent_responses' = << >>
  /\ exc' = None
  /\ result' = None
  /\ llm_calls' = 0
  /\ llm_response' = None
  /\ pc' = "SAFETY_CHECK"
  /\ UNCHANGED << initialized, agent_consultations, orchestration_log >>

\* orchestrate without its emergency branch
AfterAnalyze_no_emergency_branch(decision) == "EXECUTE"

\* the branch of orchestrate on the decision analyze_query returned
AfterAnalyze(decision) ==
  IF decision.urgency_level = <<"emergency">> THEN "EMERGENCY_RESPONSE" ELSE "EXECUTE"

\* analyze_query up to its language-model call
SafetyCheck ==
  /\ pc = "SAFETY_CHECK"
  /\ LET safety_result == check_safety(query)
     IN  IF safety_result.is_emergency
         THEN LET decision == EmergencyDecision(query, safety_result)
              IN  /\ routing_decision' = Some(decision)
                  /\ pc' = AfterAnalyze(decision)
         ELSE /\ routing_decision' = None
              /\ pc' = "ROUTE"
  /\ UNCHANGED << initialized, memory_vars, call_vars, exec_vars, agent_responses, exc,
                  result, llm_calls, llm_response >>

\* what analyze_query returns after its language-model call: the parsed reply,
\* or the default routing when the call raised (reply = None)
RoutedDecision(q, reply) ==
  IF reply # None THEN parse_routing_response(reply[1], q) ELSE FallbackDecision(q, LlmError)

\* a router whose decisions never take the emergency branch
Route_always_execute ==
  /\ pc = "ROUTE"
  /\ \E reply \in { Some(r) : r \in RouterReplies } \cup { None } :
       /\ routing_decision' = Some(RoutedDecision(query, reply))
       /\ llm_response' = reply
  /\ pc' = "EXECUTE"
  /\ llm_calls' = llm_calls + 1
  /\ UNCHANGED << initialized, memory_vars, call_vars, exec_vars, agent_responses, exc,
                  result >>

\* a router that writes its decision to the Tier-3 log
Route_records_decision ==
  /\ pc = "ROUTE"
  /\ \E reply \in { Some(r) : r \in RouterReplies } \cup { None } :
       LET decision == RoutedDecision(query, reply)
       IN  /\ routing_decision' = Some(decision)
           /\ llm_response' = reply
           /\ pc' = AfterAnalyze(decision)
           /\ orchestration_log' =
                 Append(orchestration_log,
                        OrchestrationEvent(query, decision, << >>, <<"routing">>, TRUE, None))
  /\ llm_calls' = llm_calls + 1
  /\ UNCHANGED << initialized, conversation_history, agent_consultations, call_vars, exec_vars,
                  agent_responses, exc, result >>

\* the language-model call of analyze_query and what follows it
Route ==
  /\ pc = "ROUTE"
  /\ \E reply \in { Some(r) : r \in RouterReplies } \cup { None } :
       LET decision == RoutedDecision(query, reply)
       IN  /\ routing_decision' = Some(decision)
           /\ llm_response' = reply
           /\ pc' = AfterAnalyze(decision)
  /\ llm_calls' = llm_calls + 1
  /\ UNCHANGED << initialized, memory_vars, call_vars, exec_vars, agent_responses, exc,
                  result >>

OrchestratedResponse(q, decision, agent_resps, synthesized_output, confidence, agents_consulted, error) ==
  [query              |-> q,
   routing_decision   |-> decision,
   agent_responses    |-> agent_resps,
   synthesized_output |-> synthesized_output,
   confidence         |-> confidence,
   agents_consulted   |-> agents_consulted,
   error              |-> error]

generate_emergency_response(flags) ==
  <<"EMERGENCY DETECTED", "Red flags identified: ">> \o Join(<<",", " ">>, flags)
  \o <<"IMMEDIATE ACTION REQUIRED: Call 000 (Emergency Services) NOW">>

\* the emergency branch of orchestrate
EmergencyResponse ==
  /\ pc = "EMERGENCY_RESPONSE"
  /\ LET decision         == routing_decision[1]
         emergency_output == generate_emergency_response(decision.safety_flags)
     IN  /\ orchestration_log' =
               Append(orchestration_log,
                      OrchestrationEvent(query, decision, << >>, <<"emergency">>, TRUE, None))
         /\ conversation_history' =
               Append(conversation_history, Message(<<"assistant">>, emergency_output))
         /\ result' = Some(OrchestratedResponse(query, Some(decision), << >>, emergency_output,
                                                100 * ConfUnit, << >>, None))
  /\ pc' = "DONE"
  /\ UNCHANGED << initialized, agent_consultations, call_vars, routing_decision, exec_vars,
                  agent_responses, exc, llm_calls, llm_response >>

(* ---------------------------------------------------------------------- *)
(* Execution engine                                                        *)
(* ---------------------------------------------------------------------- *)

\* one activation of execute_single_agent(agent_name, query, ctx)
NewTask(agent_name, ctx) ==
  [agent_name |-> agent_name,
   ctx        |-> ctx,        \* the context argument as it is at the call
   pc         |-> "start",
   absent     |-> FALSE,      \* what log_agent_consultation read from the dict
   response   |-> None,       \* the returned AgentResponse
   error      |-> None,       \* str(e) of the raised exception
   collected  |-> FALSE,      \* as_completed has yielded the future
   called     |-> << >>]      \* the methods of the agent it has called, in order

\* [primary_agent] + additional_agents
AllAgents(decision) == << decision.primary_agent >> \o decision.additional_agents

\* a dispatch that runs the additional agents in single mode too
AgentsToRun_all(decision) == << decision.primary_agent >> \o decision.additional_agents

\* the agent list orchestrate hands to the engine in each mode
AgentsToRun(decision) ==
  IF decision.execution_mode = <<"single">>
  THEN << decision.primary_agent >>
  ELSE AllAgents(decision)

\* a dispatch whose pipeline works on a copy of the caller's context
Execute_copies_context ==
  /\ pc = "EXECUTE"
  /\ LET decision == routing_decision[1]
         names    == AgentsToRun(decision)
     IN  CASE decision.execution_mode = <<"single">> ->
                /\ tasks' = [i \in 1..Len(names) |-> NewTask(names[i], context)]
                /\ pc' = "EXEC_SINGLE"
                /\ UNCHANGED << current_context, aliased >>
           [] decision.execution_mode = <<"parallel">> ->
                /\ tasks' = [i \in 1..Len(names) |-> NewTask(names[i], context)]
                /\ pc' = "EXEC_PARALLEL"
                /\ UNCHANGED << current_context, aliased >>
           [] decision.execution_mode = <<"sequential">> ->
                /\ aliased' = FALSE
                /\ current_context' = IF Falsy(context) THEN EmptyDict ELSE context[1]
                /\ tasks' = << NewTask(names[1], Some(current_context')) >>
                /\ pc' = "EXEC_SEQUENTIAL"
  /\ UNCHANGED << initialized, memory_vars, call_vars, routing_decision, responses, errors,
                  agent_responses, exc, result, llm_calls, llm_response >>

\* the dispatch of orchestrate on execution_mode
Execute ==
  /\ pc = "EXECUTE"
  /\ LET decision == routing_decision[1]
         names    == AgentsToRun(decision)
     IN  CASE decision.execution_mode = <<"single">> ->
                /\ tasks' = [i \in 1..Len(names) |-> NewTask(names[i], context)]
                /\ pc' = "EXEC_SINGLE"
                /\ UNCHANGED << current_context, aliased >>
           [] decision.execution_mode = <<"parallel">> ->
                /\ tasks' = [i \in 1..Len(names) |-> NewTask(names[i], context)]
                /\ pc' = "EXEC_PARALLEL"
                /\ UNCHANGED << current_context, aliased >>
           [] decision.execution_mode = <<"sequential">> ->
                /\ aliased' = ~Falsy(context)
                /\ current_context' = IF Falsy(context) THEN EmptyDict ELSE context[1]
                /\ tasks' = << NewTask(names[1], Some(current_context')) >>
                /\ pc' = "EXEC_SEQUENTIAL"
  /\ UNCHANGED << initialized, memory_vars, call_vars, routing_decision, responses, errors,
                  agent_responses, exc, result, llm_calls, llm_response >>

Executing == pc \in {"EXEC_SINGLE", "EXEC_PARALLEL", "EXEC_SEQUENTIAL"}

SetTask(i, t) == tasks' = [tasks EXCEPT ![i] = t]

Fail(t, message) == [t EXCEPT !.pc = "failed", !.error = Some(message)]

\* str(list(self.agents.keys()))
AvailableAgents ==
  <<"[">> \o Join(<<",", " ">>, [i \in 1..Len(AgentKeys) |-> <<"'">> \o AgentKeys[i] \o <<"'">>])
  \o <<"]">>

\* execute_single_agent: the registry lookup and the read of _is_initialized
TaskStart(i) ==
  /\ Executing
  /\ tasks[i].pc = "start"
  /\ LET t == tasks[i]
     IN  IF t.agent_name \notin agents
         THEN SetTask(i, Fail(t, <<"Agent '">> \o t.agent_name
                                 \o <<"' not found. Available: ">> \o AvailableAgents))
         ELSE IF initialized[t.agent_name]
         THEN SetTask(i, [t EXCEPT !.pc = "validate"])
         ELSE SetTask(i, [t EXCEPT !.pc = "init_enter",
                                   !.called = Append(@, "initialize")])
  /\ UNCHANGED << initialized, memory_vars, pc, call_vars, routing_decision, responses, errors,
                  current_context, aliased, agent_responses, exc, result, llm_calls, llm_response >>

\* an initialize() that claims the flag in the same step as it tests it
TaskInitEnter_test_and_set(i) ==
  /\ Executing
  /\ tasks[i].pc = "init_enter"
  /\ SetTask(i, [tasks[i] EXCEPT !.pc =
                   IF initialized[tasks[i].agent_name] THEN "validate" ELSE "init_load"])
  /\ initialized' = [initialized EXCEPT ![tasks[i].agent_name] = TRUE]
  /\ UNCHANGED << memory_vars, pc, call_vars, routing_decision, responses, errors,
                  current_context, aliased, agent_responses, exc, result, llm_calls, llm_response >>

\* agent.initialize(): its own test of _is_initialized
TaskInitEnter(i) ==
  /\ Executing
  /\ tasks[i].pc = "init_enter"
  /\ SetTask(i, [tasks[i] EXCEPT !.pc =
                   IF initialized[tasks[i].agent_name] THEN "validate" ELSE "init_load"])
  /\ UNCHANGED << initialized, memory_vars, pc, call_vars, routing_decision, responses, errors,
                  current_context, aliased, agent_responses, exc, result, llm_calls, llm_response >>

\* an initialize() that marks the agent as attempted whatever the outcome
TaskInitLoad_marks_attempted(i) ==
  /\ Executing
  /\ tasks[i].pc = "init_load"
  /\ initialized' = [initialized EXCEPT ![tasks[i].agent_name] = TRUE]
  /\ \E loaded \in BOOLEAN :
       IF loaded
       THEN SetTask(i, [tasks[i] EXCEPT !.pc = "validate"])
       ELSE SetTask(i, Fail(tasks[i], <<"Failed to initialize agent '">>
                                      \o tasks[i].agent_name \o <<"'">>))
  /\ UNCHANGED << memory_vars, pc, call_vars, routing_decision, responses, errors,
                  current_context, aliased, agent_responses, exc, result, llm_calls, llm_response >>

\* agent.initialize(): the model is loaded and the flag set, or loading raised
\* and initialize returns False
TaskInitLoad(i) ==
  /\ Executing
  /\ tasks[i].pc = "init_load"
  /\ \E loaded \in BOOLEAN :
       IF loaded
       THEN /\ initialized' = [initialized EXCEPT ![tasks[i].agent_name] = TRUE]
            /\ SetTask(i, [tasks[i] EXCEPT !.pc = "validate"])
       ELSE /\ SetTask(i, Fail(tasks[i], <<"Failed to initialize agent '">>
                                         \o tasks[i].agent_name \o <<"'">>))
            /\ UNCHANGED initialized
  /\ UNCHANGED << memory_vars, pc, call_vars, routing_decision, responses, errors,
                  current_context, aliased, agent_responses, exc, result, llm_calls, llm_response >>

\* an engine that raises when process returned a response with its error set
TaskRun_error_response_raises(i) ==
  /\ Executing
  /\ tasks[i].pc = "validate"
  /\ LET t == tasks[i]
     IN  IF ~validate_input(t.agent_name, query, t.ctx)
         THEN SetTask(i, [Fail(t, <<"Invalid input for agent '">> \o t.agent_name \o <<"'">>)
                            EXCEPT !.called = Append(@, "validate_input")])
         ELSE \E answered \in BOOLEAN :
                LET r == process(t.agent_name, query, t.ctx, answered)
                IN  IF r.error # None
                    THEN SetTask(i, [Fail(t, r.error[1])
                                       EXCEPT !.called = @ \o <<"validate_input", "process">>])
                    ELSE SetTask(i, [t EXCEPT !.pc = IF t.agent_name \notin DOMAIN agent_consultations
                                                    THEN "log_create" ELSE "log_append",
                                             !.called = @ \o <<"validate_input", "process">>,
                                             !.response = Some(r),
                                             !.absent = t.agent_name \notin DOMAIN agent_consultations])
  /\ UNCHANGED << initialized, memory_vars, pc, call_vars, routing_decision, responses, errors,
                  current_context, aliased, agent_responses, exc, result, llm_calls, llm_response >>

\* an engine that calls process whatever validate_input returned
TaskRun_unvalidated(i) ==
  /\ Executing
  /\ tasks[i].pc = "validate"
  /\ LET t == tasks[i]
     IN  \E answered \in BOOLEAN :
           SetTask(i, [t EXCEPT !.pc = IF t.agent_name \notin DOMAIN agent_consultations
                                       THEN "log_create" ELSE "log_append",
                                !.called = @ \o <<"validate_input", "process">>,
                                !.response = Some(process(t.agent_name, query, t.ctx, answered)),
                                !.absent = t.agent_name \notin DOMAIN agent_consultations])
  /\ UNCHANGED << initialized, memory_vars, pc, call_vars, routing_decision, responses, errors,
                  current_context, aliased, agent_responses, exc, result, llm_calls, llm_response >>

\* execute_single_agent: validate_input, then process, then the test
\* `agent_name not in self.agent_consultations` of log_agent_consultation.
\* validate_input and process touch no shared state, so the step is placed at
\* the test.
TaskRun(i) ==
  /\ Executing
  /\ tasks[i].pc = "validate"
  /\ LET t == tasks[i]
     IN  IF ~validate_input(t.agent_name, query, t.ctx)
         THEN SetTask(i, [Fail(t, <<"Invalid input for agent '">> \o t.agent_name \o <<"'">>)
                            EXCEPT !.called = Append(@, "validate_input")])
         ELSE \E answered \in BOOLEAN :
                SetTask(i, [t EXCEPT !.pc = IF t.agent_name \notin DOMAIN agent_consultations
                                            THEN "log_create" ELSE "log_append",
                                     !.called = @ \o <<"validate_input", "process">>,
                                     !.response = Some(process(t.agent_name, query, t.ctx, answered)),
                                     !.absent = t.agent_name \notin DOMAIN agent_consultations])
  /\ UNCHANGED << initialized, memory_vars, pc, call_vars, routing_decision, responses, errors,
                  current_context, aliased, agent_responses, exc, result, llm_calls, llm_response >>

\* log_agent_consultation: the test found no list for the agent, so an empty
\* one is stored under its name (whatever is there by now)
TaskLogCreate(i) ==
  /\ Executing
  /\ tasks[i].pc = "log_create"
  /\ agent_consultations' = DictSet(agent_consultations, tasks[i].agent_name, << >>)
  /\ SetTask(i, [tasks[i] EXCEPT !.pc = "log_append"])
  /\ UNCHANGED << initialized, conversation_history, orchestration_log, pc, call_vars,
                  routing_decision, responses, errors, current_context, aliased,
                  agent_responses, exc, result, llm_calls, llm_response >>

\* log_agent_consultation: the record is appended to the list now stored under
\* the agent's name; execute_single_agent returns the response
TaskLogWrite(i) ==
  /\ Executing
  /\ tasks[i].pc = "log_append"
  /\ LET t        == tasks[i]
         r        == t.response[1]
         record   == AgentConsultation(t.agent_name, query, r.output, r.confidence)
         existing == agent_consultations[t.agent_name]
     IN  agent_consultations' = DictSet(agent_consultations, t.agent_name, Append(existing, record))
  /\ SetTask(i, [tasks[i] EXCEPT !.pc = "finished"])
  /\ UNCHANGED << initialized, conversation_history, orchestration_log, pc, call_vars,
                  routing_decision, responses, errors, current_context, aliased,
                  agent_responses, exc, result, llm_calls, llm_response >>

Settled(t) == t.pc \in {"finished", "failed"}

\* orchestrate, single mode: execute_single_agent returned or raised
SingleReturn ==
  /\ pc = "EXEC_SINGLE"
  /\ \A i \in 1..Len(tasks) : Settled(tasks[i])
  /\ IF tasks[1].pc = "finished"
     THEN /\ agent_responses' = << tasks[1].response[1] >>
          /\ pc' = "SYNTHESIZE"
          /\ UNCHANGED exc
     ELSE /\ exc' = tasks[1].error
          /\ pc' = "ERROR"
          /\ UNCHANGED agent_responses
  /\ UNCHANGED << initialized, memory_vars, call_vars, routing_decision, exec_vars, result,
                  llm_calls, llm_response >>

\* execute_parallel: one turn of the as_completed loop
ParallelCollect(i) ==
  /\ pc = "EXEC_PARALLEL"
  /\ Settled(tasks[i])
  /\ ~tasks[i].collected
  /\ SetTask(i, [tasks[i] EXCEPT !.collected = TRUE])
  /\ IF tasks[i].pc = "finished"
     THEN /\ responses' = Append(responses, tasks[i].response[1])
          /\ UNCHANGED errors
     ELSE /\ errors' = Append(errors, <<"Error executing ">> \o tasks[i].agent_name
                                      \o <<": ">> \o tasks[i].error[1])
          /\ UNCHANGED responses
  /\ UNCHANGED << initialized, memory_vars, pc, call_vars, routing_decision, current_context,
                  aliased, agent_responses, exc, result, llm_calls, llm_response >>

\* execute_parallel returning as soon as the first future has been collected
ParallelReturn_first_collected ==
  /\ pc = "EXEC_PARALLEL"
  /\ \E i \in 1..Len(tasks) : tasks[i].collected
  /\ IF responses = << >> /\ errors # << >>
     THEN /\ exc' = Some(<<"All parallel agents failed: ">> \o Join(<<";", " ">>, errors))
          /\ pc' = "ERROR"
          /\ UNCHANGED agent_responses
     ELSE /\ agent_responses' = responses
          /\ pc' = "SYNTHESIZE"
          /\ UNCHANGED exc
  /\ UNCHANGED << initialized, memory_vars, call_vars, routing_decision, exec_vars, result,
                  llm_calls, llm_response >>

\* execute_parallel raising as soon as one agent failed
ParallelReturn_any_failure_raises ==
  /\ pc = "EXEC_PARALLEL"
  /\ \A i \in 1..Len(tasks) : tasks[i].collected
  /\ IF errors # << >>
     THEN /\ exc' = Some(<<"All parallel agents failed: ">> \o Join(<<";", " ">>, errors))
          /\ pc' = "ERROR"
          /\ UNCHANGED agent_responses
     ELSE /\ agent_responses' = responses
          /\ pc' = "SYNTHESIZE"
          /\ UNCHANGED exc
  /\ UNCHANGED << initialized, memory_vars, call_vars, routing_decision, exec_vars, result,
                  llm_calls, llm_response >>

\* execute_parallel after the loop: the responses, or the aggregate error
ParallelReturn ==
  /\ pc = "EXEC_PARALLEL"
  /\ \A i \in 1..Len(tasks) : tasks[i].collected
  /\ IF responses = << >> /\ errors # << >>
     THEN /\ exc' = Some(<<"All parallel agents failed: ">> \o Join(<<";", " ">>, errors))
          /\ pc' = "ERROR"
          /\ UNCHANGED agent_responses
     ELSE /\ agent_responses' = responses
          /\ pc' = "SYNTHESIZE"
          /\ UNCHANGED exc
  /\ UNCHANGED << initialized, memory_vars, call_vars, routing_decision, exec_vars, result,
                  llm_calls, llm_response >>

\* a pipeline that hands on the output of an agent but not its confidence
NextContext_output_only(ctx, agent_name, r) ==
  DictSet(ctx, agent_name \o <<"_output">>, r.output)

\* execute_sequential: the two assignments to current_context after an agent
NextContext(ctx, agent_name, r) ==
  DictSet(DictSet(ctx, agent_name \o <<"_output">>, r.output),
          agent_name \o <<"_confidence">>, r.confidence)

\* a pipeline that survives the failure of a step and goes on with the next agent
SequentialStep_skips_failed ==
  /\ pc = "EXEC_SEQUENTIAL"
  /\ Settled(tasks[Len(tasks)])
  /\ LET t        == tasks[Len(tasks)]
         pipeline == AllAgents(routing_decision[1])
         ctx      == IF t.pc = "failed" THEN current_context
                     ELSE NextContext(current_context, t.agent_name, t.response[1])
     IN  /\ responses' = IF t.pc = "failed" THEN responses ELSE Append(responses, t.response[1])
         /\ current_context' = ctx
         /\ context' = IF aliased THEN Some(ctx) ELSE context
         /\ IF Len(tasks) < Len(pipeline)
            THEN /\ tasks' = Append(tasks, NewTask(pipeline[Len(tasks) + 1], Some(ctx)))
                 /\ UNCHANGED << pc, agent_responses, exc >>
            ELSE IF responses' = << >>
            THEN /\ exc' = t.error
                 /\ pc' = "ERROR"
                 /\ UNCHANGED << tasks, agent_responses >>
            ELSE /\ agent_responses' = responses'
                 /\ pc' = "SYNTHESIZE"
                 /\ UNCHANGED << tasks, exc >>
  /\ UNCHANGED << initialized, memory_vars, query, calls, consultations_before,
                  routing_decision, errors, aliased, result, llm_calls, llm_response >>

\* execute_sequential: one turn of the loop after execute_single_agent came back
SequentialStep ==
  /\ pc = "EXEC_SEQUENTIAL"
  /\ Settled(tasks[Len(tasks)])
  /\ LET t        == tasks[Len(tasks)]
         pipeline == AllAgents(routing_decision[1])
     IN  IF t.pc = "failed"
         THEN /\ exc' = t.error
              /\ pc' = "ERROR"
              /\ UNCHANGED << tasks, responses, current_context, context, agent_responses >>
         ELSE LET r   == t.response[1]
                  ctx == NextContext(current_context, t.agent_name, r)
              IN  /\ responses' = Append(responses, r)
                  /\ current_context' = ctx
                  /\ context' = IF aliased THEN Some(ctx) ELSE context
                  /\ UNCHANGED exc
                  /\ IF Len(tasks) < Len(pipeline)
                     THEN /\ tasks' = Append(tasks, NewTask(pipeline[Len(tasks) + 1], Some(ctx)))
                          /\ UNCHANGED << pc, agent_responses >>
                     ELSE /\ agent_responses' = responses'
                          /\ pc' = "SYNTHESIZE"
                          /\ UNCHANGED tasks
  /\ UNCHANGED << initialized, memory_vars, query, calls, consultations_before,
                  routing_decision, errors, aliased, result, llm_calls, llm_response >>

(* ---------------------------------------------------------------------- *)
(* Synthesizer and the end of orchestrate                                  *)
(* ---------------------------------------------------------------------- *)

RECURSIVE FallbackSections(_)
FallbackSections(resps) ==
  IF resps = << >> THEN << >>
  ELSE <<"### ">> \o Head(resps).agent_name \o <<"\n">> \o Head(resps).output \o <<"\n", "\n">>
       \o FallbackSections(Tail(resps))

\* the synthesizer without its single-response shortcut
synthesize_results_always_llm(resps, q, reply) ==
  [output    |-> IF reply # None THEN reply[1]
                 ELSE <<"## Multi-Agent Consultation Results", "\n", "\n">>
                      \o FallbackSections(resps)
                      \o <<"\n", "Note: Automatic synthesis failed. Results shown separately.">>,
   llm_calls |-> 1]

\* synthesize_results(responses, query); reply is what self.llm.invoke gives if
\* it is called: Some(content), or None when the call raises
synthesize_results(resps, q, reply) ==
  IF Len(resps) = 1
  THEN [output |-> resps[1].output, llm_calls |-> 0]
  ELSE [output    |-> IF reply # None THEN reply[1]
                      ELSE <<"## Multi-Agent Consultation Results", "\n", "\n">>
                           \o FallbackSections(resps)
                           \o <<"\n", "Note: Automatic synthesis failed. Results shown separately.">>,
        llm_calls |-> 1]

Confidences(resps) == [i \in 1..Len(resps) |-> resps[i].confidence]

\* the names of the agents that succeeded, in the order of their dispatch
AgentNamesOf_dispatch_order(resps) ==
  LET done == SelectSeq([i \in 1..Len(tasks) |-> tasks[i]], LAMBDA t : t.pc = "finished")
  IN  [i \in 1..Len(resps) |-> done[i].agent_name]

AgentNamesOf(resps) == [i \in 1..Len(resps) |-> resps[i].agent_name]

\* a metric that adds the confidences up without dividing
avg_confidence_undivided(resps) == SumSeq(Confidences(resps))

\* orchestrate, step 5: the mean confidence of the responses
avg_confidence(resps) ==
  IF resps # << >> THEN SumSeq(Confidences(resps)) \div Len(resps) ELSE 0

\* an orchestrate in which a failed synthesis call fails the query
Synthesize_fails_on_llm_error ==
  /\ pc = "SYNTHESIZE"
  /\ UNCHANGED llm_response
  /\ \E reply \in { Some(SynthesisReply), None } :
       LET calls_llm          == Len(agent_responses) # 1
           synthesized_output == IF calls_llm THEN reply[1] ELSE agent_responses[1].output
           agents_consulted   == AgentNamesOf(agent_responses)
           decision           == routing_decision[1]
       IN  /\ llm_calls' = llm_calls + (IF calls_llm THEN 1 ELSE 0)
           /\ IF calls_llm /\ reply = None
              THEN /\ exc' = Some(LlmError)
                   /\ pc' = "ERROR"
                   /\ UNCHANGED << orchestration_log, conversation_history, result >>
              ELSE /\ orchestration_log' =
                         Append(orchestration_log,
                                OrchestrationEvent(query, decision, agents_consulted,
                                                   decision.execution_mode, TRUE, None))
                   /\ conversation_history' =
                         Append(conversation_history, Message(<<"assistant">>, synthesized_output))
                   /\ result' = Some(OrchestratedResponse(query, Some(decision), agent_responses,
                                                          synthesized_output,
                                                          avg_confidence(agent_responses),
                                                          agents_consulted, None))
                   /\ pc' = "DONE"
                   /\ UNCHANGED exc
  /\ UNCHANGED << initialized, agent_consultations, call_vars, routing_decision, exec_vars,
                  agent_responses >>

\* steps 4 to 7 of orchestrate
Synthesize ==
  /\ pc = "SYNTHESIZE"
  /\ UNCHANGED llm_response
  /\ \E reply \in { Some(SynthesisReply), None } :
       LET synthesis          == synthesize_results(agent_responses, query, reply)
           synthesized_output == synthesis.output
           agents_consulted   == AgentNamesOf(agent_responses)
           decision           == routing_decision[1]
       IN  /\ llm_calls' = llm_calls + synthesis.llm_calls
           /\ orchestration_log' =
                 Append(orchestration_log,
                        OrchestrationEvent(query, decision, agents_consulted,
                                           decision.execution_mode, TRUE, None))
           /\ conversation_history' =
                 Append(conversation_history, Message(<<"assistant">>, synthesized_output))
           /\ result' = Some(OrchestratedResponse(query, Some(decision), agent_responses,
                                                  synthesized_output,
                                                  avg_confidence(agent_responses),
                                                  agents_consulted, None))
  /\ pc' = "DONE"
  /\ UNCHANGED << initialized, agent_consultations, call_vars, routing_decision, exec_vars,
                  agent_responses, exc >>

\* an except branch that returns the error result without logging the event
HandleError_unlogged ==
  /\ pc = "ERROR"
  /\ result' = Some(OrchestratedResponse(query, routing_decision, << >>, << >>, 0, << >>, exc))
  /\ pc' = "DONE"
  /\ UNCHANGED << initialized, memory_vars, call_vars, routing_decision, exec_vars,
                  agent_responses, exc, llm_calls, llm_response >>

\* an except branch that logs the event and raises the exception again
HandleError_reraises ==
  /\ pc = "ERROR"
  /\ orchestration_log' =
        Append(orchestration_log,
               OrchestrationEvent(query, routing_decision[1], << >>, <<"error">>, FALSE, exc))
  /\ pc' = "RAISED"
  /\ UNCHANGED << initialized, conversation_history, agent_consultations, call_vars,
                  routing_decision, exec_vars, agent_responses, exc, result, llm_calls, llm_response >>

\* an except branch that also tells the user about the error in Tier 1
HandleError_adds_assistant_message ==
  /\ pc = "ERROR"
  /\ orchestration_log' =
        Append(orchestration_log,
               OrchestrationEvent(query, routing_decision[1], << >>, <<"error">>, FALSE, exc))
  /\ conversation_history' = Append(conversation_history, Message(<<"assistant">>, exc[1]))
  /\ result' = Some(OrchestratedResponse(query, routing_decision, << >>, << >>, 0, << >>, exc))
  /\ pc' = "DONE"
  /\ UNCHANGED << initialized, agent_consultations, call_vars, routing_decision, exec_vars,
                  agent_responses, exc, llm_calls, llm_response >>

\* an except branch that undoes the Tier-2 records of the failed call
HandleError_rolls_back ==
  /\ pc = "ERROR"
  /\ agent_consultations' = consultations_before
  /\ IF routing_decision # None
     THEN /\ orchestration_log' =
                Append(orchestration_log,
                       OrchestrationEvent(query, routing_decision[1], << >>, <<"error">>,
                                          FALSE, exc))
          /\ result' = Some(OrchestratedResponse(query, routing_decision, << >>, << >>, 0,
                                                 << >>, exc))
          /\ pc' = "DONE"
     ELSE /\ pc' = "RAISED"
          /\ UNCHANGED << orchestration_log, result >>
  /\ UNCHANGED << initialized, conversation_history, call_vars,
                  routing_decision, exec_vars, agent_responses, exc, llm_calls, llm_response >>

\* the except branch of orchestrate.  OrchestratedResponse requires a
\* RoutingDecision: without one its construction raises out of orchestrate.
HandleError ==
  /\ pc = "ERROR"
  /\ IF routing_decision # None
     THEN /\ orchestration_log' =
                Append(orchestration_log,
                       OrchestrationEvent(query, routing_decision[1], << >>, <<"error">>,
                                          FALSE, exc))
          /\ result' = Some(OrchestratedResponse(query, routing_decision, << >>, << >>, 0,
                                                 << >>, exc))
          /\ pc' = "DONE"
     ELSE /\ pc' = "RAISED"
          /\ UNCHANGED << orchestration_log, result >>
  /\ UNCHANGED << initialized, conversation_history, agent_consultations, call_vars,
                  routing_decision, exec_vars, agent_responses, exc, llm_calls, llm_response >>

(* ---------------------------------------------------------------------- *)
(* Reading the memory                                                      *)
(* ---------------------------------------------------------------------- *)

\* the largest max_messages the reads are called with
MaxMessages == 5

\* seq[index:] of Python: a negative index counts from the end, and both
\* kinds are clipped to the sequence
SliceFrom(seq, index) ==
  LET start == IF index < 0 THEN Max({Len(seq) + index, 0}) ELSE Min({index, Len(seq)})
  IN  SubSeq(seq, start + 1, Len(seq))

\* ThreeTierMemory.get_conversation_history
get_conversation_history(history, max_messages) ==
  IF max_messages = None THEN history ELSE SliceFrom(history, 0 - max_messages[1])

\* str.capitalize() on a role
Capitalize(role) ==
  CASE role = <<"user">>      -> <<"User">>
    [] role = <<"assistant">> -> <<"Assistant">>
    [] OTHER                  -> role

\* ThreeTierMemory.get_context_summary
get_context_summary(history, max_messages) ==
  LET recent == get_conversation_history(history, Some(max_messages))
  IN  IF recent = << >> THEN <<"No previous conversation.">>
      ELSE Join(<<"\n">>, [i \in 1..Len(recent) |->
                             Capitalize(recent[i].role) \o <<":", " ">> \o recent[i].content])

\* the code point of the first character of an agent name's first word
FirstCodePoint(name) ==
  CASE name[1] = "CXR"      -> 67
    [] name[1] = "MedGemma" -> 77
    [] name[1] = "TxGemma"  -> 84
    [] OTHER                -> 0

\* sorted(list(names)): str comparison; the registered names differ in their
\* first character
RECURSIVE sorted(_)
sorted(names) ==
  IF names = {} THEN << >>
  ELSE LET least == CHOOSE x \in names : \A y \in names : FirstCodePoint(x) <= FirstCodePoint(y)
       IN  << least >> \o sorted(names \ {least})

\* ThreeTierMemory.get_orchestration_stats (rates in units of 1 / (100 * ConfUnit);
\* avg_processing_time is left out with the times)
get_orchestration_stats(log) ==
  IF log = << >>
  THEN [total_queries |-> 0, success_rate |-> 0, agents_used |-> << >>]
  ELSE LET total      == Len(log)
           successful == Cardinality({ k \in 1..Len(log) : log[k].success })
           all_agents == UNION { Range(log[k].agents_consulted) : k \in 1..Len(log) }
       IN  [total_queries      |-> total,
            successful_queries |-> successful,
            failed_queries     |-> total - successful,
            success_rate       |-> IF total > 0 THEN (successful * 100 * ConfUnit) \div total ELSE 0,
            agents_used        |-> sorted(all_agents)]

(* ---------------------------------------------------------------------- *)
(* Clearing the memory                                                     *)
(* ---------------------------------------------------------------------- *)

\* a clear_conversation that resets the consultations as well
clear_conversation_and_consultations(memory) == << << >>, EmptyDict, memory[3] >>

\* ThreeTierMemory.clear_conversation on the tiers << Tier 1, Tier 2, Tier 3 >>
clear_conversation(memory) == << << >>, memory[2], memory[3] >>

\* a clear_all that forgets the orchestration log
clear_all_keeps_log(memory) == << << >>, EmptyDict, memory[3] >>

\* ThreeTierMemory.clear_all on the tiers << Tier 1, Tier 2, Tier 3 >>
clear_all(memory) == << << >>, EmptyDict, << >> >>

\* the caller clears the conversation between two queries
ClearConversation ==
  /\ pc \in IdleStates
  /\ LET after == clear_conversation(memory_vars)
     IN  /\ conversation_history' = after[1]
         /\ agent_consultations' = after[2]
         /\ orchestration_log' = after[3]
  /\ pc' = "CLEARED_CONVERSATION"
  /\ UNCHANGED << initialized, call_vars, routing_decision, exec_vars, agent_responses, exc,
                  result, llm_calls, llm_response >>

\* the caller clears the whole memory between two queries
ClearAll ==
  /\ pc \in IdleStates
  /\ LET after == clear_all(memory_vars)
     IN  /\ conversation_history' = after[1]
         /\ agent_consultations' = after[2]
         /\ orchestration_log' = after[3]
  /\ pc' = "CLEARED_ALL"
  /\ UNCHANGED << initialized, call_vars, routing_decision, exec_vars, agent_responses, exc,
                  result, llm_calls, llm_response >>

(* ---------------------------------------------------------------------- *)
(* Specification                                                           *)
(* ---------------------------------------------------------------------- *)

Next ==
  \/ \E q \in Queries, c \in Contexts : Orchestrate(q, c)
  \/ SafetyCheck
  \/ Route
  \/ EmergencyResponse
  \/ Execute
  \/ \E i \in 1..Len(tasks) : TaskStart(i)
  \/ \E i \in 1..Len(tasks) : TaskInitEnter(i)
  \/ \E i \in 1..Len(tasks) : TaskInitLoad(i)
  \/ \E i \in 1..Len(tasks) : TaskRun(i)
  \/ \E i \in 1..Len(tasks) : TaskLogCreate(i)
  \/ \E i \in 1..Len(tasks) : TaskLogWrite(i)
  \/ SingleReturn
  \/ \E i \in 1..Len(tasks) : ParallelCollect(i)
  \/ ParallelReturn
  \/ SequentialStep
  \/ Synthesize
  \/ HandleError

Spec == Init /\ [][Next]_vars

\* a session in which the caller also clears the memory between queries
NextMemory ==
  \/ Next
  \/ ClearConversation
  \/ ClearAll

SpecMemory == Init /\ [][NextMemory]_vars

(* ---------------------------------------------------------------------- *)
(* Properties                                                              *)
(* ---------------------------------------------------------------------- *)

\* phrase occurs in q when letter case is ignored, compared atom by atom
HasPhrase(q, phrase) ==
  \E i \in 0..(Len(q) - Len(phrase)) :
    \A j \in 1..Len(phrase) : LowerAtom(q[i + j]) = LowerAtom(phrase[j])

\* the configured phrases that occur in q, in the order of the configuration
PhrasesIn ==
  [q \in Queries |-> SelectSeq(emergency_keywords, LAMBDA phrase : HasPhrase(q, phrase))]

MatchedPhrases(q) == PhrasesIn[q]

InCall == pc \notin IdleStates

Analyzed == pc \notin {"IDLE", "SAFETY_CHECK", "ROUTE"}

C2_EmergencyShortCircuit ==
  (pc # "IDLE" /\ MatchedPhrases(query) # << >>) =>
     /\ pc \in {"SAFETY_CHECK", "EMERGENCY_RESPONSE", "DONE"}
     /\ tasks = << >>
     /\ llm_calls = 0
     /\ agent_consultations = consultations_before
     /\ pc = "DONE" =>
          /\ result # None
          /\ result[1].error = None
          /\ result[1].agents_consulted = << >>
          /\ result[1].agent_responses = << >>
          /\ result[1].confidence = 100 * ConfUnit
          /\ result[1].synthesized_output = generate_emergency_response(MatchedPhrases(query))

C2_Witness ==
  /\ pc = "DONE"
  /\ query = QueryChestPain
  /\ calls = 2
  /\ ~orchestration_log[1].success
  /\ \A a \in agents : ~initialized[a]
  /\ result[1].error = None

\* C3 as stated: EMERGENCY_RESPONSE is entered only when the keyword screener
\* fired, never by a call that has consulted the router language model.
C3_Original_EmergencyOnlyFromScreener ==
  pc = "EMERGENCY_RESPONSE" => (check_safety(query).is_emergency /\ llm_calls = 0)

\* the steps of the state machine of one orchestrate call
C3_Step ==
  /\ pc \in IdleStates => pc' = "SAFETY_CHECK"
  /\ pc = "SAFETY_CHECK" =>
        pc' = IF MatchedPhrases(query) # << >> THEN "EMERGENCY_RESPONSE" ELSE "ROUTE"
  /\ pc = "ROUTE" =>
        /\ llm_calls' = llm_calls + 1
        /\ routing_decision' # None
        /\ pc' = IF routing_decision'[1].urgency_level = <<"emergency">>
                 THEN "EMERGENCY_RESPONSE" ELSE "EXECUTE"
  /\ pc = "EMERGENCY_RESPONSE" => pc' = "DONE"
  /\ pc = "EXECUTE" => pc' \in {"EXEC_SINGLE", "EXEC_PARALLEL", "EXEC_SEQUENTIAL"}
  /\ Executing => pc' \in {pc, "SYNTHESIZE", "ERROR"}
  /\ pc = "SYNTHESIZE" => pc' = "DONE"
  /\ pc = "ERROR" => pc' = "DONE"

\* C3, amended: a call goes START -> SAFETY_CHECK -> (EMERGENCY_RESPONSE ->
\* DONE) | (ROUTE -> (EMERGENCY_RESPONSE -> DONE) | (EXECUTE -> SYNTHESIZE ->
\* DONE)), with EXECUTE failure going to ERROR.  EMERGENCY_RESPONSE is entered
\* exactly when the routing decision's urgency_level is "emergency": from
\* SAFETY_CHECK when the screener fired, from ROUTE when the router reply said
\* so; a routed call goes on to EXECUTE in every other case.
C3_StateMachine == [][C3_Step]_vars

C3_Witness ==
  /\ pc = "EMERGENCY_RESPONSE"
  /\ llm_calls = 1
  /\ ~check_safety(query).is_emergency
  /\ routing_decision[1].safety_flags = << >>

\* C4: the Tier-3 log holds exactly one event per orchestrate call, whatever
\* terminal path the call took, and the event of a call has success = false
\* exactly when the result of that call has error set.
C4_OneEventPerCall ==
  /\ InCall => Len(orchestration_log) = calls - 1
  /\ ~InCall => Len(orchestration_log) = calls
  /\ pc = "DONE" =>
        /\ result # None
        /\ orchestration_log[calls].success = (result[1].error = None)
        /\ orchestration_log[calls].error = result[1].error
        /\ orchestration_log[calls].query = query

C4_Witness ==
  /\ pc = "DONE"
  /\ calls = 2
  /\ orchestration_log[1].execution_mode = <<"emergency">>
  /\ orchestration_log[2].execution_mode = <<"error">>
  /\ ~orchestration_log[2].success

\* C5: orchestrate returns a result and never raises, whatever fails in
\* routing, execution or synthesis; a failed call's result has error set,
\* confidence 0.0, empty synthesized_output, agent_responses and
\* agents_consulted, and carries the query and the routing decision.
C5_ErrorBoundary ==
  /\ pc # "RAISED"
  /\ pc = "DONE" =>
        /\ result # None
        /\ result[1].query = query
        /\ result[1].routing_decision = routing_decision
        /\ routing_decision # None
        /\ result[1].error = exc
        /\ exc # None =>
             /\ result[1].confidence = 0
             /\ result[1].synthesized_output = << >>
             /\ result[1].agent_responses = << >>
             /\ result[1].agents_consulted = << >>

C5_Witness ==
  /\ pc = "DONE"
  /\ result[1].error # None
  /\ routing_decision[1].execution_mode = <<"sequential">>
  /\ \E i \in 1..Len(tasks) : tasks[i].pc = "finished"

Routed(mode) ==
  /\ routing_decision # None
  /\ routing_decision[1].urgency_level # <<"emergency">>
  /\ routing_decision[1].execution_mode = <<mode>>
  /\ pc \in {"EXEC_SINGLE", "EXEC_PARALLEL", "EXEC_SEQUENTIAL", "SYNTHESIZE", "ERROR", "DONE"}

FailedTasks == { i \in 1..Len(tasks) : tasks[i].pc = "failed" }

FinishedTasks == { i \in 1..Len(tasks) : tasks[i].pc = "finished" }

Occurrences(seq, x) == Cardinality({ i \in 1..Len(seq) : seq[i] = x })

\* C6: in parallel mode over N agents of which k fail (agent missing,
\* initialization failed, input rejected): when k < N the result has exactly
\* N - k entries in agents_consulted, the agents that succeeded, and error
\* unset; when k = N it has error set to the aggregate message that combines
\* every failure message, and no agents_consulted.
C6_ParallelPartialFailure ==
  (Routed("parallel") /\ pc = "DONE") =>
     LET N == Len(tasks)
         k == Cardinality(FailedTasks)
     IN  /\ N = Len(AllAgents(routing_decision[1]))
         /\ k < N =>
              /\ result[1].error = None
              /\ Len(result[1].agents_consulted) = N - k
              /\ Len(result[1].agent_responses) = N - k
              /\ \A a \in agents :
                   Occurrences(result[1].agents_consulted, a)
                     = Cardinality({ i \in FinishedTasks : tasks[i].agent_name = a })
         /\ k = N =>
              /\ result[1].error # None
              /\ result[1].error[1][1] = "All parallel agents failed: "
              /\ \A i \in 1..N :
                   Contains(result[1].error[1],
                            <<"Error executing ">> \o tasks[i].agent_name \o <<": ">>
                              \o tasks[i].error[1])
              /\ result[1].agents_consulted = << >>

C6_Witness ==
  /\ Routed("parallel")
  /\ pc = "DONE"
  /\ Len(tasks) = 3
  /\ Cardinality(FailedTasks) = 1
  /\ Len(result[1].agents_consulted) = 2

\* the context dict the j-th agent of the pipeline was called with
StepContext(j) == tasks[j].ctx[1]

\* the latest step before j that ran the agent of step i
LatestBefore(j, i) ==
  CHOOSE m \in 1..(j - 1) :
    /\ tasks[m].agent_name = tasks[i].agent_name
    /\ \A n \in (m + 1)..(j - 1) : tasks[n].agent_name # tasks[i].agent_name

\* the pipeline runs in list order, one agent at a time
C7_InOrder ==
  /\ \A j \in 1..Len(tasks) : tasks[j].agent_name = AllAgents(routing_decision[1])[j]
  /\ \A i \in 1..(Len(tasks) - 1) : tasks[i].pc = "finished"

\* C7 as stated: the context passed to agent i+1 holds, for every one of the
\* agents 1..i, the output and the confidence that agent returned.
C7_Original_ContextHoldsEveryOutput ==
  Routed("sequential") =>
     /\ C7_InOrder
     /\ \A j \in 2..Len(tasks) : \A i \in 1..(j - 1) :
          LET name == tasks[i].agent_name
          IN  /\ (name \o <<"_output">>) \in DOMAIN StepContext(j)
              /\ (name \o <<"_confidence">>) \in DOMAIN StepContext(j)
              /\ StepContext(j)[name \o <<"_output">>] = tasks[i].response[1].output
              /\ StepContext(j)[name \o <<"_confidence">>] = tasks[i].response[1].confidence

\* C7, amended: sequential mode invokes the agents in list order, one at a
\* time; the context passed to agent i+1 has the keys "<agent>_output" and
\* "<agent>_confidence" of every agent 1..i, and each pair holds what the
\* latest of the invocations 1..i of that agent name returned (an agent named
\* twice in the pipeline overwrites its earlier keys).
C7_SequentialContext ==
  Routed("sequential") =>
     /\ C7_InOrder
     /\ \A j \in 2..Len(tasks) : \A i \in 1..(j - 1) :
          LET name == tasks[i].agent_name
              last == tasks[LatestBefore(j, i)].response[1]
          IN  /\ (name \o <<"_output">>) \in DOMAIN StepContext(j)
              /\ (name \o <<"_confidence">>) \in DOMAIN StepContext(j)
              /\ StepContext(j)[name \o <<"_output">>] = last.output
              /\ StepContext(j)[name \o <<"_confidence">>] = last.confidence

C7_Witness ==
  /\ Routed("sequential")
  /\ Len(tasks) = 3
  /\ tasks[1].agent_name = tasks[2].agent_name
  /\ tasks[1].response # tasks[2].response
  /\ tasks[3].pc = "finished"
  /\ StepContext(3)[tasks[1].agent_name \o <<"_output">>] = tasks[2].response[1].output

\* C8: when step k of a sequential pipeline fails, no agent after k is
\* invoked and the call ends in an error result with no agent_responses and
\* no agents_consulted, even though the steps before k succeeded.
C8_SequentialFailure ==
  Routed("sequential") =>
     /\ \A j \in FailedTasks : j = Len(tasks)
     /\ (FailedTasks # {}) => pc \in {"EXEC_SEQUENTIAL", "ERROR", "DONE"}
     /\ (FailedTasks # {} /\ pc = "DONE") =>
          /\ result[1].error = tasks[Len(tasks)].error
          /\ result[1].error # None
          /\ result[1].agent_responses = << >>
          /\ result[1].agents_consulted = << >>
          /\ result[1].synthesized_output = << >>

C8_Witness ==
  /\ Routed("sequential")
  /\ pc = "DONE"
  /\ Len(AllAgents(routing_decision[1])) = 3
  /\ Len(tasks) = 2
  /\ tasks[1].pc = "finished"
  /\ tasks[2].pc = "failed"
  /\ result[1].agent_responses = << >>

\* C9: in single mode orchestrate invokes exactly the primary agent, whatever
\* additional agents the routing decision lists; when it succeeds
\* agents_consulted is the one-element list of that agent and the
\* synthesized_output is that agent's output, produced without a synthesis
\* call.
C9_SingleMode ==
  Routed("single") =>
     /\ Len(tasks) = 1
     /\ tasks[1].agent_name = routing_decision[1].primary_agent
     /\ (pc = "DONE" /\ tasks[1].pc = "finished") =>
          /\ result[1].error = None
          /\ result[1].agents_consulted = << routing_decision[1].primary_agent >>
          /\ result[1].agent_responses = << tasks[1].response[1] >>
          /\ result[1].synthesized_output = tasks[1].response[1].output
          /\ llm_calls = 1

C9_Witness ==
  /\ Routed("single")
  /\ pc = "DONE"
  /\ routing_decision[1].additional_agents # << >>
  /\ tasks[1].pc = "finished"
  /\ result[1].agents_consulted = << CXRFoundation >>

\* C10: synthesize_results applied to a list of one response returns the
\* output of that response unchanged and makes no language-model call.
C10_SynthesisIdentity ==
  (pc = "DONE" /\ result[1].error = None /\ Len(result[1].agent_responses) = 1) =>
     /\ result[1].synthesized_output = result[1].agent_responses[1].output
     /\ llm_calls = 1
     /\ conversation_history[Len(conversation_history)]
          = Message(<<"assistant">>, result[1].agent_responses[1].output)

C10_Witness ==
  /\ pc = "DONE"
  /\ Routed("parallel")
  /\ Len(tasks) = 3
  /\ Len(result[1].agent_responses) = 1
  /\ result[1].agent_responses[1].error # None
  /\ result[1].synthesized_output = << >>

\* the text synthesize_results falls back to: a title, one section per
\* response in the order of the responses, and the closing note
C11_Fallback(resps) ==
  <<"## Multi-Agent Consultation Results", "\n", "\n">>
  \o Join(<< >>, [i \in 1..Len(resps) |->
                   <<"### ">> \o resps[i].agent_name \o <<"\n">> \o resps[i].output
                   \o <<"\n", "\n">>])
  \o <<"\n", "Note: Automatic synthesis failed. Results shown separately.">>

\* C11: with two or more responses synthesize_results makes exactly one
\* language-model call; when that call fails the output is the fallback text
\* (every response's output under its agent heading, in order, then the note),
\* and no orchestrate call whose agents returned responses ends in an error.
C11_SynthesisFallback ==
  /\ (pc = "DONE" /\ result[1].error = None /\ Len(result[1].agent_responses) >= 2) =>
        /\ llm_calls = 2
        /\ \/ result[1].synthesized_output = SynthesisReply
           \/ result[1].synthesized_output = C11_Fallback(result[1].agent_responses)
  /\ (pc = "ERROR" \/ (pc = "DONE" /\ result[1].error # None)) => agent_responses = << >>
  /\ (pc = "DONE" /\ agent_responses # << >>) => result[1].error = None

C11_Witness ==
  /\ pc = "DONE"
  /\ Len(result[1].agent_responses) = 3
  /\ result[1].agent_responses[1].agent_name = result[1].agent_responses[2].agent_name
  /\ result[1].agent_responses[1].output # result[1].agent_responses[2].output
  /\ result[1].synthesized_output = C11_Fallback(result[1].agent_responses)
  /\ result[1].error = None

RoleCount(role) ==
  Cardinality({ i \in 1..Len(conversation_history) : conversation_history[i].role = <<role>> })

SuccessCount ==
  Cardinality({ i \in 1..Len(orchestration_log) : orchestration_log[i].success })

\* C12: each orchestrate call appends exactly one user message, the query, to
\* Tier 1 when it starts, and exactly one assistant message, whose content is
\* the returned synthesized_output, if and only if it completes without
\* error; a call that ends in error appends no assistant message.
C12_ConversationMessages ==
  LET n == Len(conversation_history)
  IN  /\ RoleCount("user") = calls
      /\ RoleCount("assistant") = SuccessCount
      /\ n = RoleCount("user") + RoleCount("assistant")
      /\ InCall => conversation_history[n] = Message(<<"user">>, query)
      /\ (pc = "DONE" /\ result[1].error = None) =>
            /\ conversation_history[n] = Message(<<"assistant">>, result[1].synthesized_output)
            /\ conversation_history[n - 1] = Message(<<"user">>, query)
      /\ (pc = "DONE" /\ result[1].error # None) =>
            conversation_history[n] = Message(<<"user">>, query)

C12_Witness ==
  /\ pc = "DONE"
  /\ calls = 2
  /\ Len(conversation_history) = 3
  /\ conversation_history[2].role = <<"user">>
  /\ conversation_history[3].role = <<"assistant">>
  /\ result[1].error = None

\* the routing decision is the one built after a failed router model call
RouterFailed ==
  /\ routing_decision # None
  /\ routing_decision[1].reasoning = <<"Default routing due to error: ">> \o LlmError

\* C13: when the router's language-model call fails analyze_query returns the
\* fallback decision (primary_agent "MedGemma", confidence 0.5, single mode,
\* no additional agents, urgency routine, reasoning citing the error), and
\* orchestrate goes on to execute that specialist.
C13_RouterFallback ==
  RouterFailed =>
     /\ routing_decision[1].primary_agent = <<"MedGemma">>
     /\ routing_decision[1].confidence = 50 * ConfUnit
     /\ routing_decision[1].execution_mode = <<"single">>
     /\ routing_decision[1].additional_agents = << >>
     /\ routing_decision[1].urgency_level = <<"routine">>
     /\ routing_decision[1].safety_flags = << >>
     /\ llm_calls = 1
     /\ pc \in {"EXECUTE", "EXEC_SINGLE", "SYNTHESIZE", "ERROR", "DONE"}
     /\ pc # "EXECUTE" => (Len(tasks) = 1 /\ tasks[1].agent_name = MedGemma)
     /\ (pc = "DONE" /\ tasks[1].pc = "finished") =>
          (result[1].error = None /\ result[1].agents_consulted = << MedGemma >>)

C13_Witness ==
  /\ RouterFailed
  /\ pc = "DONE"
  /\ result[1].error = None
  /\ result[1].agents_consulted = << MedGemma >>
  /\ result[1].synthesized_output # << >>

\* C14: the routing confidence is one of 0.5, 0.7, 0.9 and 1.0; the result
\* confidence lies in [0, 1]: it is 1.0 on the emergency path, 0.0 on error
\* and the mean of the consulted responses' confidences otherwise.
C14_ConfidenceRange ==
  /\ routing_decision # None =>
        routing_decision[1].confidence \in { 50 * ConfUnit, 70 * ConfUnit, 90 * ConfUnit, 100 * ConfUnit }
  /\ pc = "DONE" =>
        /\ result[1].confidence >= 0
        /\ result[1].confidence <= 100 * ConfUnit
        /\ result[1].error # None => result[1].confidence = 0
        /\ routing_decision[1].urgency_level = <<"emergency">> => result[1].confidence = 100 * ConfUnit
        /\ (result[1].error = None /\ routing_decision[1].urgency_level # <<"emergency">>) =>
              result[1].confidence * Len(result[1].agent_responses)
                = SumSeq([i \in 1..Len(result[1].agent_responses) |->
                            result[1].agent_responses[i].confidence])

C14_Witness ==
  /\ pc = "DONE"
  /\ Len(result[1].agent_responses) = 2
  /\ result[1].agent_responses[1].confidence = 85 * ConfUnit
  /\ result[1].agent_responses[2].confidence = 88 * ConfUnit
  /\ 2 * result[1].confidence = 173 * ConfUnit

\* C15: clear_conversation empties Tier 1 only: the Tier-2 consultation
\* records and the Tier-3 log are the same after the call as before it.
C15_ClearConversationFrame ==
  [][pc' = "CLEARED_CONVERSATION" =>
       /\ conversation_history' = << >>
       /\ agent_consultations' = agent_consultations
       /\ orchestration_log' = orchestration_log]_vars

C15_Witness ==
  /\ pc = "CLEARED_CONVERSATION"
  /\ conversation_history = << >>
  /\ \E a \in agents : a \in DOMAIN agent_consultations /\ Len(agent_consultations[a]) = 2
  /\ Len(orchestration_log) = 2

ClearOperations == {"clear_conversation", "clear_all"}

Cleared(op, memory) ==
  IF op = "clear_all" THEN clear_all(memory) ELSE clear_conversation(memory)

\* C16 as stated: for each of the three tiers the memory has an operation
\* that empties that tier and leaves the other two as they are.
C16_Original_EachTierClearable ==
  \A tier \in 1..3 : \E op \in ClearOperations :
    LET after == Cleared(op, memory_vars)
    IN  /\ after[tier] = << >>
        /\ \A other \in (1..3) \ {tier} : after[other] = memory_vars[other]

\* C16, amended: Tier 1 is clearable on its own (clear_conversation empties it
\* and leaves Tiers 2 and 3 unchanged) and a full clear (clear_all) empties
\* all three tiers; no operation empties Tier 2 alone or Tier 3 alone: a
\* clearing step that changes Tier 2 or Tier 3 empties all three tiers.
C16_ClearOperations ==
  [][(pc \in IdleStates /\ pc' \in IdleStates) =>
       /\ pc' = "CLEARED_ALL" => memory_vars' = << << >>, EmptyDict, << >> >>
       /\ pc' = "CLEARED_CONVERSATION" =>
            memory_vars' = << << >>, agent_consultations, orchestration_log >>
       /\ (agent_consultations' # agent_consultations \/ orchestration_log' # orchestration_log) =>
            memory_vars' = << << >>, EmptyDict, << >> >>]_vars

C16_Witness ==
  /\ pc = "CLEARED_ALL"
  /\ memory_vars = << << >>, EmptyDict, << >> >>
  /\ calls = 2
  /\ \E a \in agents : initialized[a]
  /\ result # None /\ Len(result[1].agents_consulted) = 2

\* C17: analyze_query is routing-only: its steps (the safety check and the
\* router model call) leave the three memory tiers and the agents'
\* initialized flags unchanged and invoke no specialist.
C17_AnalyzeQueryReadOnly ==
  [][(pc \in {"SAFETY_CHECK", "ROUTE"}) =>
       /\ conversation_history' = conversation_history
       /\ agent_consultations' = agent_consultations
       /\ orchestration_log' = orchestration_log
       /\ initialized' = initialized
       /\ tasks = << >>
       /\ tasks' = << >>
       /\ IF pc' = "ROUTE" THEN routing_decision' = None ELSE routing_decision' # None]_vars

C17_Witness ==
  /\ pc = "EXECUTE"
  /\ calls = 2
  /\ llm_calls = 1
  /\ agent_consultations # EmptyDict
  /\ agent_consultations = consultations_before
  /\ Len(orchestration_log) = 1
  /\ \E a \in agents : initialized[a]

\* the Tier-2 records stored under an agent name (none when the name is absent)
ConsultationsOf(dict, a) == IF a \in DOMAIN dict THEN dict[a] ELSE << >>

\* the Tier-2 records the current call has added under an agent name
RecordsAdded(a) ==
  Len(ConsultationsOf(agent_consultations, a)) - Len(ConsultationsOf(consultations_before, a))

TaskNames == { tasks[i].agent_name : i \in 1..Len(tasks) }

\* the execution engine has returned to orchestrate (or raised)
EngineReturned == tasks # << >> /\ ~Executing

\* C18: once the engine has returned, for each agent name the number of
\* Tier-2 records the call added equals the number of invocations of that
\* agent that returned a response, under every interleaving of the workers.
C18_EveryInvocationLogged ==
  EngineReturned =>
    \A a \in TaskNames :
      RecordsAdded(a) = Cardinality({ i \in FinishedTasks : tasks[i].agent_name = a })

\* C19: execute_parallel dispatches one task per listed agent and returns or
\* raises only when every task has finished: responses plus failures collected
\* equal the number of agents dispatched and no task is still running.
C19_ParallelJoin ==
  [][(pc = "EXEC_PARALLEL" /\ pc' # "EXEC_PARALLEL") =>
       LET names == AllAgents(routing_decision[1])
       IN  /\ Len(tasks) = Len(names)
           /\ \A i \in 1..Len(names) : tasks[i].agent_name = names[i]
           /\ \A i \in 1..Len(tasks) : Settled(tasks[i]) /\ tasks[i].collected
           /\ Len(responses) + Len(errors) = Len(tasks)
           /\ Len(responses) = Cardinality(FinishedTasks)
           /\ Len(errors) = Cardinality(FailedTasks)
           /\ tasks' = tasks]_vars

C19_Witness ==
  /\ Routed("parallel")
  /\ pc = "SYNTHESIZE"
  /\ Len(tasks) = 3
  /\ Len(responses) = 2
  /\ Len(errors) = 1
  /\ tasks[2].pc = "failed"
  /\ tasks[2].called = << >>

\* the preconditions of process hold for a task and its calls came in order
C20_Preconditions(t) ==
  /\ t.agent_name \in agents
  /\ initialized[t.agent_name]
  /\ validate_input(t.agent_name, query, t.ctx)
  /\ t.called \in { <<"validate_input", "process">>,
                    <<"initialize", "validate_input", "process">> }

C20_Invariant ==
  /\ \A i \in 1..Len(tasks) :
       /\ "process" \in Range(tasks[i].called) => C20_Preconditions(tasks[i])
       /\ tasks[i].pc = "failed" =>
            /\ "process" \notin Range(tasks[i].called)
            /\ tasks[i].response = None
            /\ tasks[i].error # None
  /\ \A a \in TaskNames :
       RecordsAdded(a) <= Cardinality({ i \in 1..Len(tasks) :
                                          /\ tasks[i].agent_name = a
                                          /\ "process" \in Range(tasks[i].called) })
  /\ (Routed("single") /\ pc = "DONE" /\ tasks[1].pc = "failed") =>
       /\ result[1].error = tasks[1].error
       /\ result[1].agents_consulted = << >>

C20_Step ==
  \A i \in 1..Len(tasks) :
    /\ (Len(tasks') = Len(tasks) /\ tasks'[i].called # tasks[i].called
          /\ tasks'[i].called = Append(tasks[i].called, "initialize")) =>
         /\ tasks[i].called = << >>
         /\ ~initialized[tasks[i].agent_name]
    /\ (Len(tasks') = Len(tasks) /\ tasks[i].pc = "failed") =>
         tasks'[i] = tasks[i] \/ tasks'[i] = [tasks[i] EXCEPT !.collected = TRUE]

\* C20: process is called on a specialist only after the agent was found in
\* the registry, is initialized (initialize called only when the flag read
\* false) and validate_input accepted the query and context, in this order;
\* a failed precondition means no process call, no Tier-2 record and, in
\* single mode, that error in the result.
C20_ProcessPreconditions == []C20_Invariant /\ [][C20_Step]_vars

C20_Witness ==
  /\ Routed("parallel")
  /\ pc = "DONE"
  /\ \E i, j \in 1..Len(tasks) :
       /\ tasks[i].called = <<"initialize", "validate_input", "process">>
       /\ tasks[j].pc = "failed"
       /\ tasks[j].called = <<"initialize", "validate_input">>

\* the message of the error raised when initialize() returned False
InitFailure(a) == <<"Failed to initialize agent '">> \o a \o <<"'">>

\* the tasks of the current call that called initialize() on agent a
InitCallers(a) ==
  { i \in 1..Len(tasks) : tasks[i].agent_name = a /\ "initialize" \in Range(tasks[i].called) }

\* an earlier orchestrate call ended with the failed initialization of agent a
FailedBefore(a) ==
  \E k \in 1..Len(orchestration_log) : orchestration_log[k].error = Some(InitFailure(a))

\* C21 as stated: initialize() is attempted on an agent at most once, whatever
\* the outcome: not twice within a call, and never again by a later query
\* after a call has failed with that agent's initialization error.
C21_Original_AtMostOneAttempt ==
  Executing =>
    \A a \in agents :
      /\ Cardinality(InitCallers(a)) <= 1
      /\ FailedBefore(a) => InitCallers(a) = {}

C21_Invariant ==
  \A i \in 1..Len(tasks) :
    LET t == tasks[i]
    IN  /\ Occurrences(t.called, "initialize") <= 1
        /\ "initialize" \in Range(t.called) => t.called[1] = "initialize"
        /\ (t.pc = "failed" /\ t.agent_name \in agents /\ t.error = Some(InitFailure(t.agent_name))) =>
             t.called = <<"initialize">>

C21_Step ==
  /\ \A a \in agents : initialized[a] => initialized'[a]
  /\ \A i \in 1..Len(tasks) :
       (Len(tasks') = Len(tasks) /\ tasks[i].pc = "start" /\ tasks'[i].pc # "start"
          /\ tasks[i].agent_name \in agents) =>
         ("initialize" \in Range(tasks'[i].called)) = ~initialized[tasks[i].agent_name]
  /\ \A i \in 1..Len(tasks) :
       (Len(tasks') = Len(tasks) /\ tasks[i].pc = "init_load" /\ tasks'[i].pc = "failed") =>
         /\ initialized' = initialized
         /\ tasks'[i].error = Some(InitFailure(tasks[i].agent_name))

\* C21, amended: only a successful initialization is memoized. The engine
\* calls initialize() on an agent exactly when it reads the agent's flag as
\* false, the flag once set stays set, and an invocation calls initialize()
\* at most once, so the failing invocation does not retry; a failed
\* initialize() leaves the flag false, so a later invocation of that agent
\* (a later query, or another task of the same batch) calls it again.
C21_SuccessMemoized == []C21_Invariant /\ [][C21_Step]_vars

C21_Witness ==
  /\ Executing
  /\ calls = 2
  /\ \E a \in agents :
       /\ FailedBefore(a)
       /\ \E i \in InitCallers(a) : tasks[i].pc = "failed" /\ tasks[i].error = Some(InitFailure(a))

\* the tasks that have passed both flag tests and are loading agent a
Loading(a) == { i \in 1..Len(tasks) : tasks[i].agent_name = a /\ tasks[i].pc = "init_load" }

C22_Invariant ==
  \A a \in agents :
    Cardinality(Loading(a)) >= 2 =>
      /\ pc = "EXEC_PARALLEL"
      /\ Occurrences(AllAgents(routing_decision[1]), a) >= 2
      /\ \A i \in Loading(a) : tasks[i].called = <<"initialize">>

C22_Step ==
  /\ \A i \in 1..Len(tasks) :
       (Len(tasks') = Len(tasks) /\ tasks[i].pc # "init_load" /\ tasks'[i].pc = "init_load") =>
         /\ ~initialized[tasks[i].agent_name]
         /\ initialized' = initialized
  /\ \A a \in agents :
       initialized'[a] # initialized[a] =>
         \E i \in Loading(a) : tasks'[i].pc = "validate"

\* C22: first-use initialization is not guarded. The test of the flag and the
\* setting of the flag are separate steps: a task that finds the flag false
\* enters the loading code without changing it, and the flag is set only when
\* a load ends; so two tasks of one parallel batch for the same agent can both
\* be loading it at once, and only then.
C22_UnguardedInitialization == []C22_Invariant /\ [][C22_Step]_vars

C22_Witness ==
  /\ pc = "EXEC_PARALLEL"
  /\ \E a \in agents :
       /\ ~initialized[a]
       /\ Cardinality(Loading(a)) = 2

\* the sequence before is an initial part of the sequence after
IsPrefix(before, after) ==
  Len(before) <= Len(after) /\ SubSeq(after, 1, Len(before)) = before

\* C23: memory is append-only between clears: over every step of orchestrate
\* (add_user_message, add_assistant_message, log_agent_consultation,
\* log_orchestration_event) each tier's log before the step is a prefix of
\* that tier's log after it.
C23_AppendOnly ==
  [][/\ IsPrefix(conversation_history, conversation_history')
     /\ IsPrefix(orchestration_log, orchestration_log')
     /\ \A a \in DOMAIN agent_consultations :
          /\ a \in DOMAIN agent_consultations'
          /\ IsPrefix(agent_consultations[a], agent_consultations'[a])]_vars

\* the value a reply gives to a field: the rest of the line that holds the
\* field's prefix, None when the reply has no such line
FieldOf(text, prefix) ==
  IF PrefixAt(text, prefix, FALSE) = {} THEN None
  ELSE LET i == Min(PrefixAt(text, prefix, FALSE))
       IN  Some(Strip(SubSeq(text, i + 1, LineEnd(text, i + 1))))

\* the names a field value lists
NamesIn(field) ==
  IF field = None \/ Lower(field[1]) \in { <<"none">>, <<"n/a">>, << >> }
  THEN << >>
  ELSE StripAll(Split(field[1]))

\* C24: the parsed additional_agents is the empty sequence when the reply
\* gives ADDITIONAL_AGENTS as "none", "n/a" (any case) or empty, also when
\* further lines follow the empty field, or has no such field; otherwise it
\* is the comma-separated names of the field, trimmed, in order.
C24_AdditionalAgentsParsing ==
  (routing_decision # None /\ llm_response # None) =>
    routing_decision[1].additional_agents = NamesIn(FieldOf(llm_response[1], "ADDITIONAL_AGENTS:"))

\* the last min(n, L) elements of a sequence of length L
LastN(seq, n) == SubSeq(seq, Len(seq) - Min({n, Len(seq)}) + 1, Len(seq))

\* "Role: content", one line per message
Rendered(messages) ==
  Join(<<"\n">>, [i \in 1..Len(messages) |->
                   (IF messages[i].role = <<"user">> THEN <<"User">> ELSE <<"Assistant">>)
                   \o <<":", " ">> \o messages[i].content])

\* C25: for every n >= 0, get_conversation_history(n) is the last min(n, L)
\* Tier-1 messages in order and get_context_summary(n) renders them as
\* "Role: content" lines, or is the no-conversation text when there are none.
C25_LastNMessages ==
  \A n \in 0..MaxMessages :
    LET last == LastN(conversation_history, n)
    IN  /\ get_conversation_history(conversation_history, Some(n)) = last
        /\ get_context_summary(conversation_history, n)
             = IF last = << >> THEN <<"No previous conversation.">> ELSE Rendered(last)

\* the agent names that occur in the agents_consulted of some Tier-3 event
AgentsInLog ==
  { a \in agents : \E k \in 1..Len(orchestration_log) :
                     \E j \in 1..Len(orchestration_log[k].agents_consulted) :
                       orchestration_log[k].agents_consulted[j] = a }

SuccessfulEvents == { k \in 1..Len(orchestration_log) : orchestration_log[k].success }

\* C26: the statistics are derived from the current Tier-3 log: total_queries
\* is its length, successful_queries + failed_queries = total_queries,
\* success_rate = successful / total (0.0 for an empty log) and agents_used is
\* the sorted, duplicate-free sequence of all names consulted.
C26_StatsDerived ==
  LET stats == get_orchestration_stats(orchestration_log)
  IN  /\ stats.total_queries = Len(orchestration_log)
      /\ {"successful_queries", "failed_queries"} \subseteq DOMAIN stats
      /\ stats.successful_queries + stats.failed_queries = stats.total_queries
      /\ stats.successful_queries = Cardinality(SuccessfulEvents)
      /\ stats.success_rate * stats.total_queries = stats.successful_queries * 100 * ConfUnit
      /\ Range(stats.agents_used) = AgentsInLog
      /\ Len(stats.agents_used) = Cardinality(AgentsInLog)
      /\ \A i, j \in 1..Len(stats.agents_used) :
           i < j => FirstCodePoint(stats.agents_used[i]) < FirstCodePoint(stats.agents_used[j])

C27_Invariant ==
  (Routed("parallel") /\ pc = "DONE" /\ result[1].error = None) =>
    LET r == result[1]
    IN  /\ Len(r.agent_responses) = Len(r.agents_consulted)
        /\ Len(r.agent_responses) = Cardinality(FinishedTasks)
        /\ r.agent_responses = responses
        /\ \A k \in 1..Len(r.agent_responses) :
             r.agents_consulted[k] = r.agent_responses[k].agent_name
        /\ \A a \in TaskNames :
             Occurrences(r.agents_consulted, a)
               = Cardinality({ i \in FinishedTasks : tasks[i].agent_name = a })

C27_Step ==
  (pc = "EXEC_PARALLEL" /\ responses' # responses) =>
    \E i \in FinishedTasks :
      /\ ~tasks[i].collected
      /\ tasks'[i].collected
      /\ responses' = Append(responses, tasks[i].response[1])

\* C27: in parallel mode agent_responses and agents_consulted have equal
\* length and list exactly the agents whose invocation succeeded, position by
\* position, in the order in which the finished tasks were collected; that
\* order depends on the interleaving and need not be the dispatch order.
C27_CompletionOrder == []C27_Invariant /\ [][C27_Step]_vars

C27_Witness ==
  /\ Routed("parallel")
  /\ pc = "DONE"
  /\ Len(tasks) = 2
  /\ tasks[1].agent_name = MedGemma
  /\ tasks[2].agent_name = TxGemma
  /\ result[1].agents_consulted = << TxGemma, MedGemma >>

\* the keys the pipeline writes for an agent name
OutputKey(a) == a \o <<"_output">>

ConfidenceKey(a) == a \o <<"_confidence">>

\* the steps of the pipeline whose response execute_sequential has taken
StepsTaken == { i \in FinishedTasks : i <= Len(responses) }

C28_Invariant ==
  (Routed("sequential") /\ pc \in {"SYNTHESIZE", "ERROR", "DONE"}) =>
    IF Falsy(tasks[1].ctx) /\ ~aliased
    THEN Falsy(context)
    ELSE /\ aliased
         /\ context # None
         /\ \A k \in DOMAIN tasks[1].ctx[1] : k \in DOMAIN context[1]
         /\ context[1][<<"image">>] = ImageContext[<<"image">>]
         /\ \A i \in StepsTaken :
              /\ OutputKey(tasks[i].agent_name) \in DOMAIN context[1]
              /\ ConfidenceKey(tasks[i].agent_name) \in DOMAIN context[1]
         /\ StepsTaken # {} =>
              LET last == Max(StepsTaken)
              IN  /\ context[1][OutputKey(tasks[last].agent_name)] = tasks[last].response[1].output
                  /\ context[1][ConfidenceKey(tasks[last].agent_name)]
                       = tasks[last].response[1].confidence

C28_Step ==
  (InCall /\ context' # context) =>
    /\ pc = "EXEC_SEQUENTIAL"
    /\ ~Falsy(context)
    /\ tasks[Len(tasks)].pc = "finished"
    /\ context' = Some(NextContext(context[1], tasks[Len(tasks)].agent_name,
                                   tasks[Len(tasks)].response[1]))

\* C28: sequential mode writes into the caller's own context: called with a
\* non-empty mapping, the "<agent>_output" and "<agent>_confidence" keys of
\* every agent that ran are in that mapping when orchestrate returns, also
\* when a later step failed; an absent or empty context is left as it was;
\* single and parallel mode never modify the context.
C28_CallerContextWritten == []C28_Invariant /\ [][C28_Step]_vars

C28_Witness ==
  /\ Routed("sequential")
  /\ pc = "DONE"
  /\ result[1].error # None
  /\ context # None
  /\ OutputKey(MedGemma) \in DOMAIN context[1]
  /\ <<"image">> \in DOMAIN context[1]

C28_WitnessEmpty ==
  /\ Routed("sequential")
  /\ pc = "DONE"
  /\ context = Some(EmptyDict)
  /\ Len(responses) = 3

\* the Tier-3 event of the call that has just ended
LastEvent == orchestration_log[Len(orchestration_log)]

\* C29: a failed sequential pipeline does not roll back Tier 2: the records
\* written for the steps before the failing one stay in memory, while the
\* Tier-3 event of the call has success = false, execution_mode "error" and
\* no agents_consulted.
C29_NoRollback ==
  (Routed("sequential") /\ pc = "DONE" /\ result[1].error # None) =>
    /\ LastEvent.success = FALSE
    /\ LastEvent.execution_mode = <<"error">>
    /\ LastEvent.agents_consulted = << >>
    /\ LastEvent.error = result[1].error
    /\ \A a \in TaskNames :
         LET steps == { i \in FinishedTasks : tasks[i].agent_name = a }
             added == SubSeq(ConsultationsOf(agent_consultations, a),
                             Len(ConsultationsOf(consultations_before, a)) + 1,
                             Len(ConsultationsOf(agent_consultations, a)))
         IN  /\ Len(added) = Cardinality(steps)
             /\ \A i \in steps : \E n \in 1..Len(added) :
                  added[n] = AgentConsultation(a, query, tasks[i].response[1].output,
                                               tasks[i].response[1].confidence)

C29_Witness ==
  /\ Routed("sequential")
  /\ pc = "DONE"
  /\ result[1].error # None
  /\ Cardinality(FinishedTasks) = 2
  /\ \E a \in DOMAIN agent_consultations :
       /\ agent_consultations[a] # << >>
       /\ a \notin Range(get_orchestration_stats(orchestration_log).agents_used)
       /\ \A k \in 1..Len(orchestration_log) : a \notin Range(orchestration_log[k].agents_consulted)

\* the finished tasks whose response has its error field set
ErrorResponses == { i \in FinishedTasks : tasks[i].response[1].error # None }

\* the messages of the errors execute_single_agent raises for an agent name
RaisedMessages(a) ==
  { <<"Agent '">> \o a \o <<"' not found. Available: ">> \o AvailableAgents,
    InitFailure(a),
    <<"Invalid input for agent '">> \o a \o <<"'">> }

====
